---- MODULE Spec2Model ----
(***************************************************************************)
(* A model of src/ultimate_python_generator5.py: the request loop of       *)
(* UltimatePythonCodeGenerator (process_request_with_retry,                *)
(* process_request, validate_code_with_model, save_code, create_backup),   *)
(* the code block extractor (extract_python_code) and the block merger     *)
(* (_merge_code_blocks).                                                   *)
(*                                                                         *)
(* Eight specifications share the definitions below:                       *)
(*   Spec            one request handled by process_request_with_retry,    *)
(*                   with the model backend and the filesystem as the      *)
(*                   environment;                                          *)
(*   SpecSave        a sequence of save_code calls on a shared output and  *)
(*                   backup directory;                                     *)
(*   SpecText        extract_python_code and _merge_code_blocks applied to *)
(*                   bounded inputs;                                       *)
(*   SpecMain        main's loop and handle_multi_line_input;              *)
(*   SpecStructure   is_complete_structure applied to bounded texts;       *)
(*   SpecCall        call_model on one run of the model process;           *)
(*   SpecCallSteps   call_model step by step, with its indicator thread    *)
(*                   and the model subprocess;                             *)
(*   SpecValidators  validate_and_fix_code and its caller.                 *)
(***************************************************************************)
EXTENDS Integers, Sequences, FiniteSets, TLC

\* ------------------------------------------------------------------------
\* Configuration (module-level constants of the program)
\* ------------------------------------------------------------------------
MAX_RETRIES == 3
VALIDATION_PASSES == 1
ENABLE_VALIDATION_LOOP == TRUE
ENABLE_CODE_VALIDATORS == TRUE
BACKUP_BEFORE_VALIDATION == TRUE
DEFAULT_OUTPUT_DIR == "generated_scripts"

\* ------------------------------------------------------------------------
\* Bounds of the model
\* ------------------------------------------------------------------------
\* datetime.now() read to the second: the clock runs over 0..MaxTime.
MaxTime == 3
\* SpecSave: the number of save_code calls in one behaviour.
MaxSaves == 3
\* SpecText: the number of lines of a response, and of blocks merged.
MaxRespLen == 5
MaxBlocks == 2

VARIABLES
    \* --- process_request_with_retry / process_request ---
    pc,             \* position in the request's state machine
    request,        \* the request being handled
    attempt,        \* 1-based attempt number (attempt + 1 of the for loop)
    pass,           \* loop index of validate_code_with_model
    code,           \* the candidate
    filename,       \* the filename computed by generate_filename
    modelCalls,     \* call_model invocations made for this request
    \* --- filesystem and clock ---
    files,          \* target files: path -> content
    backups,        \* backup directory: backup name -> content
    now,            \* the wall clock, in seconds
    saves,          \* SpecSave: save_code calls made
    \* --- SpecText: extract_python_code and _merge_code_blocks ---
    mode,           \* which of the two is applied: "extract" or "merge"
    tpc,            \* "input" before the call, "done" after it
    response_lines, \* the response text, as lines
    code_blocks,    \* the list of code blocks
    result,         \* the code returned, as lines
    mergeCalls,     \* calls of _merge_code_blocks made
    \* --- observations (history variables, read only by the properties) ---
    onlyTransport,  \* every model call so far failed at the transport level
    interruptedAt,  \* modelCalls at the first Ctrl-C, 0 when none
    interruptedIn,  \* attempt of the first Ctrl-C, 0 when none
    succeededAt,    \* attempt that returned True, 0 when none
    savedCodes,     \* contents passed to save_code
    reqTargets,     \* target paths opened for writing during the request
    reqBackups,     \* backup names written during the request
    failedWrites,   \* target paths opened for writing by an attempt that failed
    lastSave,       \* what the last save_code call found and did
    \* --- the interactive loop (main) and handle_multi_line_input ---
    mainpc,           \* position in main's loop
    multi_line_mode,  \* self.multi_line_mode
    current_input,    \* self.current_input, as characters
    processed_input,  \* what handle_multi_line_input returned
    lastLine,         \* observation: the last line read and what it led to
    \* --- is_complete_structure applied to a text ---
    text,             \* the text, as characters
    classified,       \* is_complete_structure has returned
    complete,         \* what is_complete_structure returned for it
    \* --- call_model applied to one run of the model process ---
    modelRun,         \* what the process does: exception, exit code, streams
    modelReturned,    \* call_model has returned
    modelResponse,    \* what call_model returned
    \* --- call_model step by step, its indicator thread, its subprocess ---
    cpc,              \* position of the main flow in call_model
    thinking_active,  \* the event: "None" before it exists, "set", "clear"
    progress_thread,  \* the indicator thread: state, prints made, joins
    process,          \* the model subprocess: state, return code, signals
    callExit,         \* what call_model returns ("None", "output") or "raised"
    \* --- validate_and_fix_code and its caller ---
    valpc,            \* position: in the validator, back in process_request
    vcode,            \* process_request's candidate
    toolsRun,         \* the validation steps run so far, in order
    lastStatus,       \* how the last step's tool behaved
    toolSkips,        \* steps whose tool was absent or timed out
    vresults          \* validate_and_fix_code's results dictionary

orchVars == <<pc, request, attempt, pass, code, filename, modelCalls>>
fsVars   == <<files, backups, now, saves>>
obsVars  == <<onlyTransport, interruptedAt, interruptedIn, succeededAt,
              savedCodes, reqTargets, reqBackups, failedWrites, lastSave>>
textVars == <<mode, tpc, response_lines, code_blocks, result, mergeCalls>>
mainVars == <<mainpc, multi_line_mode, current_input, processed_input,
              lastLine>>
structVars == <<text, classified, complete>>
stepVars == <<cpc, thinking_active, progress_thread, process, callExit>>
callVars == <<modelRun, modelReturned, modelResponse, stepVars>>
toolVars == <<valpc, vcode, toolsRun, lastStatus, toolSkips, vresults>>
auxVars  == <<mainVars, structVars, callVars, toolVars>>
vars     == <<orchVars, fsVars, obsVars, textVars, auxVars>>

\* ------------------------------------------------------------------------
\* Candidates and syntax validity
\* ------------------------------------------------------------------------
NoCode == ""
\* Source texts the model backend may answer with.
ModelCodes == {"good", "better", "broken"}
\* What the auto-fixers (black, autopep8, isort, added docstring) turn a
\* syntactically valid candidate into.
Formatted(c) ==
    CASE c = "good" -> "good_fmt"
      [] c = "better" -> "better_fmt"
      [] OTHER -> c
AllCodes == ModelCodes \cup {Formatted(c) : c \in ModelCodes}
\* File contents: a candidate, the content of a file of an earlier run, or
\* the empty file open(path, 'w') leaves before the write.
PreviousContent == "previous"
Truncated == ""
Contents == AllCodes \cup {PreviousContent, Truncated}

\* validate_python_code: ast.parse succeeds.
validate_python_code(c) == c # "broken"

\* ------------------------------------------------------------------------
\* The model backend
\* ------------------------------------------------------------------------
\* What one run of the model subprocess can end in: a transport failure
\* (non-zero exit, binary missing, any other exception, empty output), a
\* Ctrl-C while the call is in flight, or a response text. A response text
\* is described by what the orchestrator reads from it: whether it contains
\* CODE_APPROVED and what extract_python_code returns for it.
None == [kind |-> "none", approved |-> FALSE, extracted |-> NoCode]
ModelOutcomes ==
    {[kind |-> k, approved |-> FALSE, extracted |-> NoCode] :
        k \in {"fail", "interrupt"}}
    \cup {[kind |-> "text", approved |-> a, extracted |-> e] :
            a \in BOOLEAN, e \in ModelCodes \cup {NoCode}}

\* call_model: the response text, or None on a non-zero exit, a missing
\* binary, KeyboardInterrupt or any other exception.
call_model(o) == IF o.kind = "text" THEN o ELSE None

\* extract_python_code, as seen by the orchestrator.
extracted_code(response) == response.extracted

\* ------------------------------------------------------------------------
\* Filenames and paths
\* ------------------------------------------------------------------------
\* A filename "<stem>.py" is kept as its parts: the words it was built from
\* and, for a derived name, the timestamp appended to them.
\* A request text is kept as its words (user_request.split()). What the
\* code reads from the characters of a word: lower is word.lower(), ident
\* is what [a-zA-Z_][a-zA-Z0-9_]*(?:\.py)? matches at its start ("" when
\* nothing), py is word.endswith('.py'), stem is the word without that
\* suffix and alnum is the lower-cased word without the characters that
\* are not alphanumeric.
RequestTexts ==
    {<<"create", "math_tools.py", "that", "adds">>,
     <<"adder", "Save", "as", "math_tools.py">>,
     <<"Make", "a", "Hello", "world", "program">>,
     <<"make", "a", "tool", "../evil.py">>,
     <<"create", "../evil.py", "that", "adds", "numbers">>}
word_facts(w) ==
    CASE w = "math_tools.py" ->
            [lower |-> w, ident |-> "math_tools.py", py |-> TRUE,
             stem |-> "math_tools", alnum |-> "math_toolspy"]
      [] w = "../evil.py" ->
            [lower |-> w, ident |-> "", py |-> TRUE, stem |-> "../evil",
             alnum |-> "evilpy"]
      [] w = "Make" ->
            [lower |-> "make", ident |-> w, py |-> FALSE, stem |-> w,
             alnum |-> "make"]
      [] w = "Save" ->
            [lower |-> "save", ident |-> w, py |-> FALSE, stem |-> w,
             alnum |-> "save"]
      [] w = "Hello" ->
            [lower |-> "hello", ident |-> w, py |-> FALSE, stem |-> w,
             alnum |-> "hello"]
      [] OTHER ->
            [lower |-> w, ident |-> w, py |-> FALSE, stem |-> w,
             alnum |-> w]

\* extract_filename_from_request: the filename the request names, by the
\* first of its three patterns that matches, or None. The first two
\* patterns ignore case.
NoSpecifiedName == "None"
extract_filename_from_request(words) ==
    LET n == Len(words)
        low == [k \in 1..n |-> word_facts(words[k]).lower]
        pattern1 ==
            {i \in 1..n :
                \/ /\ i + 2 <= n
                   /\ <<low[i], low[i + 1]>> \in
                          {<<"save", "as">>, <<"name", "it">>,
                           <<"call", "it">>}
                   /\ word_facts(words[i + 2]).ident # ""
                \/ /\ i + 1 <= n
                   /\ low[i] \in {"filename", "filename:"}
                   /\ word_facts(words[i + 1]).ident # ""}
        pattern2 ==
            {i \in 1..n :
                /\ i + 2 <= n
                /\ low[i] = "create"
                /\ word_facts(words[i + 1]).py
                /\ word_facts(words[i + 1]).ident = words[i + 1]
                /\ low[i + 2] \in {"that", "to", "which"}}
        first(S) == CHOOSE i \in S : \A j \in S : i <= j
    IN  IF pattern1 # {}
        THEN LET i == first(pattern1)
             IN  word_facts(words[IF low[i] \in {"filename", "filename:"}
                                  THEN i + 1 ELSE i + 2]).ident
        ELSE IF pattern2 # {} THEN words[first(pattern2) + 1]
        ELSE IF n > 0 /\ word_facts(words[n]).py THEN words[n]
        ELSE NoSpecifiedName

\* The name generate_filename builds its result from: the specified name
\* (with ".py" appended when it lacks it, so its stem either way), or the
\* first three words of the request that are not skipped, stripped of
\* their non-alphanumeric characters and joined by "_".
request_name(words) ==
    LET specified == extract_filename_from_request(words)
        skip_words == {"make", "create", "generate", "write", "a", "an",
                       "the", "file", "script", "program"}
        clean == [k \in 1..Len(words) |-> word_facts(words[k]).alnum]
        kept == SelectSeq(clean, LAMBDA c : c # "" /\ c \notin skip_words)
        filename_words == IF kept = <<>> THEN <<"script">> ELSE kept
        RECURSIVE join(_)
        join(ws) ==
            IF Len(ws) = 1 THEN ws[1] ELSE ws[1] \o "_" \o join(Tail(ws))
    IN  IF specified # NoSpecifiedName
        THEN [explicit |-> TRUE, base |-> word_facts(specified).stem]
        ELSE [explicit |-> FALSE,
              base |-> join(SubSeq(filename_words, 1,
                                   IF Len(filename_words) < 3
                                   THEN Len(filename_words) ELSE 3))]
Requests == {request_name(words) : words \in RequestTexts}

\* generate_filename: the specified name, or the first words of the request
\* followed by the timestamp.
generate_filename_stamped(req, t) ==
    [base |-> req.base, stamped |-> TRUE, ts |-> t]
generate_filename(req, t) ==
    IF req.explicit
    THEN [base |-> req.base, stamped |-> FALSE, ts |-> 0]
    ELSE [base |-> req.base, stamped |-> TRUE,  ts |-> t]

OutputPath(dir, fname) == [dir |-> dir, name |-> fname]

\* create_backup's backup_filename: "<stem>_backup_<timestamp><suffix>" in
\* the one backup directory; the target's directory is not part of it.
backup_filename(path, t) == [of |-> path.name, ts |-> t]

Exists(fs, path) == path \in DOMAIN fs
WriteFile(fs, path, content) ==
    [p \in DOMAIN fs \cup {path} |-> IF p = path THEN content ELSE fs[p]]

\* ------------------------------------------------------------------------
\* save_code and create_backup
\* ------------------------------------------------------------------------
\* create_backup: the backup directory after the call. Nothing is copied
\* when the target does not exist; shutil.copy2 may raise (copyOk = FALSE),
\* which is caught and reported, and the backup directory is left as it was.
create_backup(path, copyOk) ==
    IF ~BACKUP_BEFORE_VALIDATION \/ ~Exists(files, path)
    THEN backups
    ELSE IF copyOk
         THEN WriteFile(backups, backup_filename(path, now), files[path])
         ELSE backups

\* The with-open-write of save_code: open(path, 'w') creates or truncates
\* the target (openOk), f.write fills it (writeOk); either may raise.
write_target(path, c, openOk, writeOk) ==
    IF ~openOk THEN files
    ELSE IF writeOk THEN WriteFile(files, path, c)
    ELSE WriteFile(files, path, Truncated)

\* save_code returns True iff nothing raised.
save_ok(openOk, writeOk) == openOk /\ writeOk

\* save_code: backup, then write; create_backup's result is not looked at.
save_code(c, fname, dir, copyOk, openOk, writeOk) ==
    LET path == OutputPath(dir, fname)
        existed == Exists(files, path)
    IN  /\ backups' = (IF ENABLE_VALIDATION_LOOP
                       THEN create_backup(path, copyOk) ELSE backups)
        /\ files' = write_target(path, c, openOk, writeOk)
        /\ savedCodes' = savedCodes \cup {c}
        /\ lastSave' = [called |-> TRUE, existed |-> existed,
                        pre |-> IF existed THEN files[path] ELSE Truncated,
                        path |-> path]
        /\ reqTargets' = reqTargets \cup (IF openOk THEN {path} ELSE {})
        /\ reqBackups' = reqBackups \cup
              (IF backups' # backups \/ (existed /\ copyOk)
               THEN {backup_filename(path, now)} ELSE {})
        /\ failedWrites' = failedWrites \cup
              (IF openOk /\ ~writeOk THEN {path} ELSE {})

\* ------------------------------------------------------------------------
\* process_request_with_retry
\* ------------------------------------------------------------------------
\* A loop that runs one attempt more than MAX_RETRIES.
more_attempts_one_too_many(made) == made <= MAX_RETRIES

\* The for loop runs another attempt while attempts made < MAX_RETRIES.
more_attempts(made) == made < MAX_RETRIES

\* process_request returned False: sleep a second and run the next attempt,
\* or give up after MAX_RETRIES attempts.
AttemptFailed ==
    IF more_attempts(attempt)
    THEN /\ now < MaxTime
         /\ now' = now + 1
         /\ attempt' = attempt + 1
         /\ pc' = "generate"
    ELSE /\ pc' = "failed"
         /\ UNCHANGED <<attempt, now>>

\* validate_code_with_model returned: on to the validators and save_code.
ObserveCall(o) ==
    /\ modelCalls' = modelCalls + 1
    /\ onlyTransport' = (onlyTransport /\ o.kind = "fail")
    /\ interruptedAt' = (IF o.kind = "interrupt" /\ interruptedAt = 0
                         THEN modelCalls + 1 ELSE interruptedAt)
    /\ interruptedIn' = (IF o.kind = "interrupt" /\ interruptedIn = 0
                         THEN attempt ELSE interruptedIn)

\* process_request up to validate_code_with_model: the generation call,
\* extraction, the syntax check and generate_filename.
Generate(o) ==
    /\ pc = "generate"
    /\ ObserveCall(o)
    /\ LET response == call_model(o)
           c == extracted_code(response)
       IN  IF response = None \/ c = NoCode \/ ~validate_python_code(c)
           THEN /\ AttemptFailed
                /\ UNCHANGED <<code, filename, pass>>
           ELSE /\ code' = c
                /\ filename' = generate_filename(request, now)
                /\ pass' = 0
                /\ pc' = (IF ENABLE_VALIDATION_LOOP THEN "review" ELSE "persist")
                /\ UNCHANGED <<attempt, now>>
    /\ UNCHANGED <<request, files, backups, saves, succeededAt, savedCodes,
                   reqTargets, reqBackups, failedWrites, lastSave, textVars, auxVars>>

\* The candidate validate_code_with_model goes on with after a review
\* response that is neither an approval nor a valid revision.
carried_code(improved, prior) == IF improved # NoCode THEN improved ELSE prior

\* One iteration of validate_code_with_model's loop: one review call.
Review(o) ==
    /\ pc = "review"
    /\ pass <= VALIDATION_PASSES
    /\ ObserveCall(o)
    /\ LET response == call_model(o)
           improved == extracted_code(response)
       IN  IF response = None \/ response.approved
           THEN /\ pc' = "persist"
                /\ UNCHANGED <<code, pass>>
           ELSE IF improved # NoCode /\ validate_python_code(improved)
           THEN /\ code' = improved
                /\ pc' = "persist"
                /\ UNCHANGED pass
           ELSE /\ code' = carried_code(improved, code)
                /\ pass' = pass + 1
                /\ pc' = (IF pass + 1 <= VALIDATION_PASSES
                          THEN "review" ELSE "persist")
    /\ UNCHANGED <<request, attempt, filename, files, backups, now, saves,
                   succeededAt, savedCodes, reqTargets, reqBackups,
                   failedWrites, lastSave, textVars, auxVars>>

\* validate_and_fix_code as process_request uses it: a candidate that fails
\* the syntax check comes back unchanged with no fix applied; otherwise the
\* auto-fixers may have rewritten it (fixed).
validate_and_fix_code(c, fixed) ==
    IF ~validate_python_code(c) THEN c
    ELSE IF fixed THEN Formatted(c) ELSE c

\* The rest of process_request: the validators, then save_code.
Persist(fixed, copyOk, openOk, writeOk) ==
    /\ pc = "persist"
    /\ LET c == IF ENABLE_CODE_VALIDATORS
                THEN validate_and_fix_code(code, fixed) ELSE code
       IN  /\ code' = c
           /\ save_code(c, filename, DEFAULT_OUTPUT_DIR, copyOk, openOk, writeOk)
    /\ IF save_ok(openOk, writeOk)
       THEN /\ pc' = "done"
            /\ succeededAt' = attempt
            /\ UNCHANGED <<attempt, now>>
       ELSE /\ AttemptFailed
            /\ UNCHANGED succeededAt
    /\ UNCHANGED <<request, pass, filename, modelCalls, saves,
                   onlyTransport, interruptedAt, interruptedIn, textVars, auxVars>>

\* Time passes while a subprocess runs or the user types.
Tick ==
    /\ now < MaxTime
    /\ now' = now + 1
    /\ UNCHANGED <<orchVars, files, backups, saves, obsVars, textVars, auxVars>>

NoSave == [called |-> FALSE, existed |-> FALSE, pre |-> Truncated,
           path |-> OutputPath(DEFAULT_OUTPUT_DIR,
                               [base |-> "", stamped |-> FALSE, ts |-> 0])]
NoFiles == [p \in {} |-> Truncated]
NoFilename == [base |-> "", stamped |-> FALSE, ts |-> 0]

\* Outside SpecText the extractor's variables are not used.
TextIdle ==
    /\ mode = "none"
    /\ tpc = "done"
    /\ response_lines = <<>>
    /\ code_blocks = <<>>
    /\ result = <<>>
    /\ mergeCalls = 0

\* handle_multi_line_input returned None.
NoInput == <<"None">>
\* No line has been read yet.
NoLine == [handled |-> FALSE, line |-> <<>>, mode_before |-> FALSE,
           returned |-> NoInput, mode_after |-> FALSE, buffer_after |-> <<>>,
           released_by |-> "none"]
\* Each specification uses the variables of one part of the program and
\* leaves the other parts' variables at rest: outside SpecMain the
\* interactive loop is not running, outside SpecStructure no text is
\* classified, outside SpecCall and SpecCallSteps no model process is run
\* and outside SpecValidators the validator is not called.
NoResponse == <<"None">>
AuxIdle(active) ==
    /\ active # "main" =>
            /\ mainpc = "none"
            /\ multi_line_mode = FALSE
            /\ current_input = <<>>
            /\ processed_input = NoInput
            /\ lastLine = NoLine
    /\ active # "structure" =>
            /\ text = <<>>
            /\ classified = TRUE
            /\ complete = FALSE
    /\ active # "call" =>
            /\ modelRun = [raises |-> "none", returncode |-> 0,
                           stdout |-> <<>>, stderr |-> <<>>]
            /\ modelReturned = TRUE
            /\ modelResponse = NoResponse
    /\ active # "steps" =>
            /\ cpc = "none"
            /\ thinking_active = "None"
            /\ progress_thread = [state |-> "None", prints |-> 0,
                                  joins |-> 0]
            /\ process = [state |-> "None", returncode |-> 0,
                          signals |-> <<>>]
            /\ callExit = "None"
    /\ active # "validators" =>
            /\ valpc = "none"
            /\ vcode = <<>>
            /\ toolsRun = <<>>
            /\ lastStatus = "none"
            /\ toolSkips = 0
            /\ vresults = [valid |-> TRUE, warnings |-> {},
                           fixes_applied |-> <<>>, improved_code |-> <<>>]

ObsInit ==
    /\ onlyTransport = TRUE
    /\ interruptedAt = 0
    /\ interruptedIn = 0
    /\ succeededAt = 0
    /\ savedCodes = {}
    /\ reqTargets = {}
    /\ reqBackups = {}
    /\ failedWrites = {}
    /\ lastSave = NoSave

\* A request arrives; the explicit target may exist from an earlier run.
Init ==
    /\ pc = "generate"
    /\ request \in Requests
    /\ attempt = 1
    /\ pass = 0
    /\ code = NoCode
    /\ filename = NoFilename
    /\ modelCalls = 0
    /\ files \in {NoFiles}
          \cup {WriteFile(NoFiles,
                          OutputPath(DEFAULT_OUTPUT_DIR,
                                     generate_filename(request, 0)),
                          PreviousContent)}
    /\ (~request.explicit => files = NoFiles)
    /\ backups = NoFiles
    /\ now = 0
    /\ saves = 0
    /\ ObsInit
    /\ TextIdle
    /\ AuxIdle("none")

Next ==
    \/ \E o \in ModelOutcomes : Generate(o)
    \/ \E o \in ModelOutcomes : Review(o)
    \/ \E fixed, copyOk, openOk, writeOk \in BOOLEAN :
          Persist(fixed, copyOk, openOk, writeOk)
    \/ Tick

Spec == Init /\ [][Next]_vars

\* ------------------------------------------------------------------------
\* SpecSave: save_code called repeatedly on shared directories
\* ------------------------------------------------------------------------
\* The output directory is DEFAULT_OUTPUT_DIR or one chosen with
\* 'set output <dir>' (set_output_directory).
OutputDirs == {DEFAULT_OUTPUT_DIR, "other_dir"}
SaveNames ==
    {[base |-> "math_tools", stamped |-> FALSE, ts |-> 0],
     [base |-> "utils", stamped |-> FALSE, ts |-> 0]}

\* One save_code call, as process_request or a caller of the class makes it.
SaveCall(c, fname, dir, copyOk, openOk, writeOk) ==
    /\ saves < MaxSaves
    /\ saves' = saves + 1
    /\ save_code(c, fname, dir, copyOk, openOk, writeOk)
    /\ UNCHANGED <<orchVars, now, onlyTransport, interruptedAt,
                   interruptedIn, succeededAt, textVars, auxVars>>

InitSave ==
    /\ pc = "idle"
    /\ request \in {[explicit |-> TRUE, base |-> "math_tools"]}
    /\ attempt = 1
    /\ pass = 0
    /\ code = NoCode
    /\ filename = NoFilename
    /\ modelCalls = 0
    /\ files \in {NoFiles}
          \cup {WriteFile(NoFiles, OutputPath(d, n), PreviousContent) :
                  d \in OutputDirs, n \in SaveNames}
    /\ backups = NoFiles
    /\ now = 0
    /\ saves = 0
    /\ ObsInit
    /\ TextIdle
    /\ AuxIdle("none")

NextSave ==
    \/ \E c \in {"good", "better"}, fname \in SaveNames, dir \in OutputDirs,
          copyOk, openOk, writeOk \in BOOLEAN :
          SaveCall(c, fname, dir, copyOk, openOk, writeOk)
    \/ Tick

SpecSave == InitSave /\ [][NextSave]_vars

\* ------------------------------------------------------------------------
\* Text: lines, and the string tests the code applies to them
\* ------------------------------------------------------------------------
\* A text is the sequence of its lines (text.split('\n')); the lines are
\* drawn from a vocabulary, and each str method the code calls is given by
\* its value on that vocabulary.
GuardDq == "if __name__ == \"__main__\":"
GuardSq == "if __name__ == '__main__':"
\* The fence marker, three backquotes, is written ~~~: a TLA+ string
\* cannot hold a backquote.
Fence == "~~~"
FencePython == "~~~python"
Shebang == "#!/usr/bin/env python3"
DocQuotes == "\"\"\""

\* line.strip()
strip(l) ==
    CASE l = "    run()" -> "run()"
      [] l = "    main()" -> "main()"
      [] OTHER -> l
\* len(line) - len(line.lstrip())
indent(l) == IF l \in {"    run()", "    main()"} THEN 4 ELSE 0
\* line.startswith('\t')
starts_with_tab(l) == FALSE
\* stripped == 'main()' or stripped.startswith('main(') and stripped.endswith(')')
is_main_call(s) == s = "main()"
\* stripped.startswith('import ')
starts_with_import(s) == s \in {"import os", "import sys"}
\* stripped.startswith('from ')
starts_with_from(s) == s \in {"from os import path", "from os import sep"}
\* ' import ' in stripped
has_import(s) == s \in {"from os import path", "from os import sep"}
\* stripped.split(' import ')[0] and [1]
module_part(s) == "from os"
import_part(s) == IF s = "from os import path" THEN "path" ELSE "sep"
\* stripped.startswith('def main(') or stripped == 'def main():'
is_def_main(s) == s = "def main():"
\* stripped.startswith('def ') or stripped.startswith('class ')
is_def_or_class(s) == s \in {"def main():", "def helper():"}
\* stripped.startswith('if __name__ == "__main__":')
starts_with_guard(s) == s = GuardDq
\* stripped.startswith('#!/usr/bin/env python3'), stripped.startswith('"""')
is_shebang(s) == s = Shebang
starts_with_docquotes(s) == s = DocQuotes
\* sorted(): the vocabulary in string order
ImportOrder == <<"import os", "import sys">>
ModuleOrder == <<"from os">>
NameOrder == <<"path", "sep">>

\* code.split('\n'): the empty text is one empty line.
split_lines(codeLines) == IF codeLines = <<>> THEN <<"">> ELSE codeLines

\* text.strip() on a text kept as lines: leading and trailing blank lines go.
strip_text(ls) ==
    LET solid == {k \in 1..Len(ls) : strip(ls[k]) # ""}
    IN  IF solid = {} THEN <<>>
        ELSE SubSeq(ls, CHOOSE k \in solid : \A m \in solid : k <= m,
                        CHOOSE k \in solid : \A m \in solid : k >= m)

\* ', '.join(...) and the concatenation of lists of lines
RECURSIVE join_comma(_)
join_comma(names) ==
    IF names = <<>> THEN ""
    ELSE IF Len(names) = 1 THEN names[1]
    ELSE names[1] \o ", " \o join_comma(Tail(names))
RECURSIVE flatten(_)
flatten(parts) ==
    IF parts = <<>> THEN <<>> ELSE Head(parts) \o flatten(Tail(parts))

\* f'script_{n}.py', f'block_{n}'
script_name(n) == "script_" \o ToString(n) \o ".py"
block_name(n) == "block_" \o ToString(n)

\* ------------------------------------------------------------------------
\* _merge_code_blocks
\* ------------------------------------------------------------------------
\* filename.replace(".py", "").replace("-", "_").replace(".", "_")
clean_filename(f) ==
    CASE f = "utils.py" -> "utils"
      [] f = "main.py" -> "main"
      [] \E n \in 1..9 : f = script_name(n) ->
            "script_" \o ToString(CHOOSE n \in 1..9 : f = script_name(n))
      [] OTHER -> f
\* clean_filename.startswith("script_")
starts_with_script(f) == \E n \in 1..9 : f = "script_" \o ToString(n)

\* The while loop of the guard branch: it advances i, the index of the
\* enclosing for loop over the blocks, along the lines of the block.
RECURSIVE skip_index(_, _)
skip_index(i, lines) ==
    IF i + 1 < Len(lines)
       /\ (indent(lines[i + 2]) >= 4 \/ strip(lines[i + 2]) = "")
    THEN skip_index(i + 1, lines)
    ELSE i

\* The body of 'for line in lines' (lines 580-627) on the loop's variables.
merge_line(st, line, lines) ==
    LET stripped == strip(line) IN
    IF is_main_call(stripped) THEN st
    ELSE IF starts_with_import(stripped)
    THEN [st EXCEPT !.all_imports = @ \cup {stripped}]
    ELSE IF starts_with_from(stripped)
    THEN IF has_import(stripped)
         THEN [st EXCEPT !.all_from_imports =
                   @ \cup {<<module_part(stripped), import_part(stripped)>>}]
         ELSE st
    ELSE IF is_def_main(stripped)
    THEN [st EXCEPT !.in_main = TRUE, !.main_indent = indent(line),
                    !.block_main = Append(@, line)]
    ELSE IF st.in_main
    THEN IF /\ stripped # ""
            /\ is_def_or_class(stripped)
            /\ ~(indent(line) >= st.main_indent + 1)
            /\ ~starts_with_tab(line)
         THEN [st EXCEPT !.in_main = FALSE, !.block_other = Append(@, line)]
         ELSE IF starts_with_guard(stripped)
         THEN [st EXCEPT !.in_main = FALSE]
         ELSE [st EXCEPT !.block_main = Append(@, line)]
    ELSE IF starts_with_guard(stripped)
    THEN [st EXCEPT !.i = skip_index(@, lines)]
    ELSE IF ~is_shebang(stripped) /\ ~starts_with_docquotes(stripped)
    THEN [st EXCEPT !.block_other = Append(@, line)]
    ELSE st

RECURSIVE merge_lines(_, _, _)
merge_lines(st, lines, k) ==
    IF k > Len(lines) THEN st
    ELSE merge_lines(merge_line(st, lines[k], lines), lines, k + 1)

\* The section header of a block, as lines.
section_header(description, fname) ==
    LET Rule ==
            "# ============================================================"
    IN  <<"", Rule, "# " \o description \o " (from " \o fname \o ")",
          Rule, "">>

\* The name given to a block's main function (lines 630-640); i is the
\* value the loop variable has after the block's lines were processed.
main_function_name(fname, i) ==
    "main_" \o (IF starts_with_script(clean_filename(fname))
                THEN block_name(i + 1) ELSE clean_filename(fname))

\* One round of 'for i, block in enumerate(code_blocks)' (lines 559-647).
merge_block(acc, block, index) ==
    LET st0 == [in_main |-> FALSE, main_indent |-> 0, i |-> index,
                block_main |-> <<>>, block_other |-> <<>>,
                all_imports |-> acc.all_imports,
                all_from_imports |-> acc.all_from_imports]
        lines == split_lines(block.code)
        st == merge_lines(st0, lines, 1)
    IN  [all_imports |-> st.all_imports,
         all_from_imports |-> st.all_from_imports,
         main_functions |->
            IF st.block_main # <<>>
            THEN Append(acc.main_functions,
                        [name |-> main_function_name(block.filename, st.i),
                         code |-> st.block_main,
                         description |-> block.description])
            ELSE acc.main_functions,
         other_code |->
            IF st.block_other # <<>>
            THEN Append(acc.other_code,
                        [header |-> section_header(block.description,
                                                   block.filename),
                         code |-> st.block_other,
                         description |-> block.description])
            ELSE acc.other_code]

RECURSIVE merge_blocks(_, _, _)
merge_blocks(acc, blocks, k) ==
    IF k > Len(blocks) THEN acc
    ELSE merge_blocks(merge_block(acc, blocks[k], k - 1), blocks, k + 1)

\* What the first loop of _merge_code_blocks collects.
merge_collect(blocks) ==
    merge_blocks([all_imports |-> {}, all_from_imports |-> {},
                  main_functions |-> <<>>, other_code |-> <<>>], blocks, 1)

\* The module docstring of the merged script (lines 653-664).
merged_docstring(blocks) ==
    <<Shebang, DocQuotes,
      "Comprehensive Python script merged from multiple code blocks.",
      "Auto-generated with anti-fragmentation merging technology.">>
    \o (IF Len(blocks) > 1
        THEN <<"Merged from " \o ToString(Len(blocks))
                  \o " separate code blocks:">>
             \o [k \in 1..Len(blocks) |->
                   "  - " \o blocks[k].filename \o ": "
                          \o blocks[k].description]
        ELSE <<>>)
    \o <<DocQuotes, "">>

\* The consolidated imports (lines 667-679).
merged_imports(c) ==
    LET from_import_line(m, pairs) ==
            m \o " import "
              \o join_comma(SelectSeq(NameOrder,
                                      LAMBDA n : <<m, n>> \in pairs))
    IN
    IF c.all_imports # {} \/ c.all_from_imports # {}
    THEN <<"# Consolidated imports">>
         \o SelectSeq(ImportOrder, LAMBDA l : l \in c.all_imports)
         \o LET ms == SelectSeq(ModuleOrder,
                        LAMBDA m : \E p \in c.all_from_imports : p[1] = m)
            IN  [k \in 1..Len(ms) |->
                    from_import_line(ms[k], c.all_from_imports)]
         \o <<"">>
    ELSE <<>>

\* The other code of every block under its header (lines 682-685).
merged_sections(c) ==
    flatten([k \in 1..Len(c.other_code) |->
               c.other_code[k].header \o c.other_code[k].code \o <<"">>])

\* The unified main function and the renamed mains (lines 688-717).
unified_main(c) ==
    LET fs == c.main_functions IN
    IF fs = <<>> THEN <<>>
    ELSE <<"", "# Unified main function", "def main():",
           "    \"\"\"Unified main function that executes all merged functionality.\"\"\"",
           "    print(\"Executing comprehensive merged script...\")", "">>
         \o flatten([k \in 1..Len(fs) |->
               <<"    # Execute " \o fs[k].description,
                 "    print(\"\\n" \o fs[k].description \o "\")",
                 "    " \o fs[k].name \o "()">>
               \o (IF k < Len(fs) THEN <<"">> ELSE <<>>)])
         \o <<"", "    print(\"\\nAll sections completed successfully!\")", "">>
         \o flatten([k \in 1..Len(fs) |->
               <<"def " \o fs[k].name \o "():",
                 "    \"\"\"Execute " \o fs[k].description \o ".\"\"\"">>
               \o Tail(fs[k].code) \o <<"">>])

\* The final main execution (lines 719-722).
final_guard == <<"", GuardDq, "    main()">>

\* A merge that wraps a single block like any other list.
merge_single_wrapped(blocks) ==
    merged_docstring(blocks) \o blocks[1].code \o final_guard

\* The single-block case (lines 548-549): the block's code, as it is.
merge_single(blocks) == blocks[1].code

\* _merge_code_blocks: the merged script, as lines.
merge_code_blocks(blocks) ==
    IF blocks = <<>> THEN <<>>
    ELSE IF Len(blocks) = 1 THEN merge_single(blocks)
    ELSE LET c == merge_collect(blocks)
         IN  merged_docstring(blocks) \o merged_imports(c)
             \o merged_sections(c) \o unified_main(c) \o final_guard

\* ------------------------------------------------------------------------
\* extract_python_code
\* ------------------------------------------------------------------------
MERGE_ALL_CODE_BLOCKS == TRUE

\* stripped.startswith(FencePython), stripped.startswith(Fence)
starts_with_fence_python(s) == s = FencePython
starts_with_fence(s) == s \in {Fence, FencePython}
\* The filename a prose line hints at (patterns 1 to 3, lines 957-979):
\* the line holds one of the phrases and the regex finds a name in it.
hint_filename(s) == IF s = "save as utils.py" THEN "utils.py" ELSE ""
\* Pattern 4: a comment naming a file, script or module.
is_purpose_comment(s) == FALSE
\* The prose tests of the fallback (lines 1068-1073).
starts_with_prose(s) == s = "Here is the code:"
ends_with_colon(s) == s \in {"Here is the code:", "def main():"}

\* 'value or default' on strings
or_else(value, default) == IF value # "" THEN value ELSE default

\* The block appended to code_blocks, numbered n when it has no name.
new_block(st, n) ==
    [code |-> strip_text(st.current_block),
     filename |-> or_else(st.current_filename, script_name(n)),
     description |-> or_else(st.current_description,
                             "Code Block " \o ToString(n))]

\* The filename hints looked for before a block (lines 956-983).
extract_hint(st, stripped, k, n) ==
    IF ~st.in_code_block /\ k - 1 < n - 2
    THEN IF hint_filename(stripped) # ""
         THEN [st EXCEPT !.current_filename = hint_filename(stripped),
                         !.current_description = stripped]
         ELSE IF is_purpose_comment(stripped)
         THEN [st EXCEPT !.current_description = stripped]
         ELSE st
    ELSE st

\* One round of the while loop of phase 1 (lines 951-1026) on line k.
extract_line(st0, line, k, n) ==
    LET stripped == strip(line)
        st == extract_hint(st0, stripped, k, n)
    IN  IF starts_with_fence_python(stripped)
           \/ (starts_with_fence(stripped) /\ ~st.in_code_block)
        THEN LET saved ==
                   IF st.in_code_block /\ st.current_block # <<>>
                   THEN [st EXCEPT
                           !.code_blocks =
                               Append(@, new_block(st, st.block_count + 1)),
                           !.current_block = <<>>]
                   ELSE st
                 count == st.block_count + 1
             IN  [saved EXCEPT
                    !.in_code_block = TRUE,
                    !.block_count = count,
                    !.current_filename = or_else(@, script_name(count)),
                    !.current_description =
                        IF @ = "Code Block"
                        THEN "Code Block " \o ToString(count) ELSE @]
        ELSE IF st.in_code_block /\ stripped = Fence
        THEN [st EXCEPT
                !.in_code_block = FALSE,
                !.code_blocks =
                    IF st.current_block # <<>>
                    THEN Append(@, new_block(st, st.block_count)) ELSE @,
                !.current_block = <<>>,
                !.current_filename = "",
                !.current_description = "Code Block"]
        ELSE IF st.in_code_block
        THEN [st EXCEPT !.current_block = Append(@, line)]
        ELSE st

RECURSIVE extract_lines(_, _, _)
extract_lines(st, lines, k) ==
    IF k > Len(lines) THEN st
    ELSE extract_lines(extract_line(st, lines[k], k, Len(lines)), lines, k + 1)

\* Phase 1: the code blocks of the response, the last one closed at the end
\* of the text when its fence is still open (lines 941-1034).
collect_blocks(lines) ==
    LET st == extract_lines(
                [code_blocks |-> <<>>, current_block |-> <<>>,
                 current_filename |-> "", current_description |-> "Code Block",
                 in_code_block |-> FALSE, block_count |-> 0], lines, 1)
    IN  IF st.in_code_block /\ st.current_block # <<>>
        THEN Append(st.code_blocks, new_block(st, st.block_count))
        ELSE st.code_blocks

\* Phase 3: the response without its prose-looking lines (lines 1064-1076).
fallback_extraction(lines) ==
    strip_text(SelectSeq(lines, LAMBDA line :
        LET stripped == strip(line)
        IN  /\ ~starts_with_prose(stripped)
            /\ ~starts_with_fence(stripped)
            /\ stripped # ""
            /\ ~ends_with_colon(stripped)))

\* extract_python_code: the code returned, with the blocks collected and
\* whether _merge_code_blocks was called.
extract_python_code(lines) ==
    LET blocks == collect_blocks(lines) IN
    IF Len(blocks) > 1 /\ MERGE_ALL_CODE_BLOCKS
    THEN [code |-> merge_code_blocks(blocks), code_blocks |-> blocks,
          merged |-> TRUE]
    ELSE IF Len(blocks) = 1
    THEN [code |-> blocks[1].code, code_blocks |-> blocks, merged |-> FALSE]
    ELSE [code |-> fallback_extraction(lines), code_blocks |-> blocks,
          merged |-> FALSE]

\* ------------------------------------------------------------------------
\* SpecText: the extractor and the merger on bounded inputs
\* ------------------------------------------------------------------------
\* The lines a response is made of.
ResponseLines ==
    {FencePython, Fence, "save as utils.py", "Here is the code:",
     "def main():", "x = 1", ""}
RECURSIVE SeqsUpTo(_, _)
SeqsUpTo(S, n) ==
    IF n = 0 THEN {<<>>}
    ELSE LET shorter == SeqsUpTo(S, n - 1)
         IN  shorter \cup {Append(q, x) : q \in shorter, x \in S}
\* response.split('\n') has at least one line.
Responses == SeqsUpTo(ResponseLines, MaxRespLen) \ {<<>>}

\* The code of a block handed to _merge_code_blocks: optional imports, a
\* main function, further code and a guard, in this order.
BlockCodes ==
    LET ImportParts == {<<>>, <<"import os", "from os import path">>}
        MainParts == {<<>>, <<"def main():", "    run()">>}
        OtherParts == {<<>>, <<"def helper():", "    run()">>}
        GuardParts ==
            {<<>>, <<GuardDq, "    main()">>, <<GuardSq, "    main()">>}
    IN  {a \o b \o c \o d : a \in ImportParts, b \in MainParts,
                            c \in OtherParts, d \in GuardParts} \ {<<>>}
BlockLists ==
    LET Blocks ==
            {[code |-> c, filename |-> f, description |-> "Code Block"] :
                c \in BlockCodes, f \in {"utils.py", script_name(1)}}
    IN  SeqsUpTo(Blocks, MaxBlocks) \ {<<>>}

\* _merge_code_blocks called on a list of blocks.
MergeCodeBlocks ==
    /\ mode = "merge"
    /\ tpc = "input"
    /\ result' = merge_code_blocks(code_blocks)
    /\ mergeCalls' = 1
    /\ tpc' = "done"
    /\ UNCHANGED <<mode, response_lines, code_blocks, orchVars, fsVars, obsVars,
                   auxVars>>

\* extract_python_code called on a response.
ExtractPythonCode ==
    /\ mode = "extract"
    /\ tpc = "input"
    /\ LET r == extract_python_code(response_lines)
       IN  /\ result' = r.code
           /\ code_blocks' = r.code_blocks
           /\ mergeCalls' = (IF r.merged THEN 1 ELSE 0)
    /\ tpc' = "done"
    /\ UNCHANGED <<mode, response_lines, orchVars, fsVars, obsVars,
                   auxVars>>

InitText ==
    /\ tpc = "input"
    /\ result = <<>>
    /\ mergeCalls = 0
    /\ \/ mode = "merge" /\ code_blocks \in BlockLists /\ response_lines = <<>>
       \/ mode = "extract" /\ response_lines \in Responses /\ code_blocks = <<>>
    /\ pc = "idle"
    /\ request \in {[explicit |-> TRUE, base |-> "math_tools"]}
    /\ attempt = 1
    /\ pass = 0
    /\ code = NoCode
    /\ filename = NoFilename
    /\ modelCalls = 0
    /\ files = NoFiles
    /\ backups = NoFiles
    /\ now = 0
    /\ saves = 0
    /\ ObsInit
    /\ AuxIdle("none")

NextText ==
    \/ MergeCodeBlocks
    \/ ExtractPythonCode

SpecText == InitText /\ [][NextText]_vars

\* ------------------------------------------------------------------------
\* Typed input: texts as characters
\* ------------------------------------------------------------------------
\* What the user types is kept as the sequence of its characters, so that
\* the scans, counts and suffix tests of the completeness checks are
\* computed as the code computes them.
Dq == "\""
Sq == "'"
Backslash == "\\"
Hash == "#"
Newline == "\n"
Whitespace == {" ", Newline}
Letters ==
    {"a", "c", "d", "e", "k", "l", "m", "n", "o", "t", "x",
     "A", "C", "D", "E", "L", "N"}

\* str.lower() and str.upper(), character by character
lower(t) ==
    LET lower_char(c) ==
            CASE c = "A" -> "a" [] c = "C" -> "c" [] c = "D" -> "d"
              [] c = "E" -> "e" [] c = "L" -> "l" [] c = "N" -> "n"
              [] OTHER -> c
    IN  [k \in 1..Len(t) |-> lower_char(t[k])]
upper(t) ==
    LET upper_char(c) ==
            CASE c = "a" -> "A" [] c = "c" -> "C" [] c = "d" -> "D"
              [] c = "e" -> "E" [] c = "l" -> "L" [] c = "n" -> "N"
              [] OTHER -> c
    IN  [k \in 1..Len(t) |-> upper_char(t[k])]

\* text.strip(): the text between its first and its last character that is
\* not whitespace
strip_chars(t) ==
    LET solid == {k \in 1..Len(t) : t[k] \notin Whitespace}
    IN  IF solid = {} THEN <<>>
        ELSE SubSeq(t, CHOOSE k \in solid : \A m \in solid : k <= m,
                       CHOOSE k \in solid : \A m \in solid : k >= m)

\* word in text, text.count(c), text.endswith(c), any(c in text for c in cs)
contains(t, word) ==
    \E k \in 1..(Len(t) - Len(word) + 1) :
        SubSeq(t, k, k + Len(word) - 1) = word
count(t, c) == Cardinality({k \in 1..Len(t) : t[k] = c})
endswith(t, c) == t # <<>> /\ t[Len(t)] = c
has_any(t, cs) == \E k \in 1..Len(t) : t[k] \in cs
\* len(text.split()): the maximal runs of characters that are not whitespace
word_count(t) ==
    Cardinality({k \in 1..Len(t) :
        t[k] \notin Whitespace /\ (k = 1 \/ t[k - 1] \in Whitespace)})
\* text.isidentifier(), on texts without digits
isidentifier(t) ==
    t # <<>> /\ \A k \in 1..Len(t) : t[k] \in Letters \cup {"_"}

\* _has_unclosed_strings: scan is its while loop from index i on (lines
\* 767-779); a quote right after a backslash is skipped, whatever precedes
\* the backslash.
has_unclosed_strings(t) ==
    LET RECURSIVE scan(_, _, _)
        scan(i, in_single, in_double) ==
            IF i > Len(t) THEN in_single \/ in_double
            ELSE LET escaped == i > 1 /\ t[i - 1] = Backslash
                 IN  IF t[i] = Sq /\ ~in_double
                     THEN scan(i + 1,
                               IF escaped THEN in_single ELSE ~in_single,
                               in_double)
                     ELSE IF t[i] = Dq /\ ~in_single
                     THEN scan(i + 1, in_single,
                               IF escaped THEN in_double ELSE ~in_double)
                     ELSE scan(i + 1, in_single, in_double)
    IN  scan(1, FALSE, FALSE)

\* ------------------------------------------------------------------------
\* is_valid_python_structure: ast.parse accepts the text
\* ------------------------------------------------------------------------
\* The Python grammar on the characters used here: names, string literals
\* (single or triple quoted, with backslash escapes), comments, =, ==,
\* braces and newlines. The letters spell no keyword and no string prefix,
\* and no escape that takes arguments.
LexError == <<"ERROR">>
\* The tokens of t. end_of_string is the index after the end of the string
\* literal whose body starts at j, 0 when the literal is not terminated; in
\* lex, depth counts the open braces, inside which a newline ends no
\* statement.
tokenize(t) ==
    LET is_triple(j, q) ==
            j + 2 <= Len(t) /\ t[j] = q /\ t[j + 1] = q /\ t[j + 2] = q
        RECURSIVE end_of_string(_, _, _)
        end_of_string(j, q, triple) ==
            IF j > Len(t) THEN 0
            ELSE IF t[j] = Backslash THEN end_of_string(j + 2, q, triple)
            ELSE IF triple
            THEN IF is_triple(j, q) THEN j + 3
                 ELSE end_of_string(j + 1, q, triple)
            ELSE IF t[j] = Newline THEN 0
            ELSE IF t[j] = q THEN j + 1
            ELSE end_of_string(j + 1, q, triple)
        RECURSIVE end_of_name(_)
        end_of_name(i) ==
            IF i <= Len(t) /\ t[i] \in Letters THEN end_of_name(i + 1) ELSE i
        RECURSIVE end_of_comment(_)
        end_of_comment(i) ==
            IF i <= Len(t) /\ t[i] # Newline THEN end_of_comment(i + 1)
            ELSE i
        RECURSIVE lex(_, _, _)
        lex(i, depth, toks) ==
            IF i > Len(t) THEN (IF depth = 0 THEN toks ELSE LexError)
            ELSE LET c == t[i]
                 IN  IF c \in Letters
                     THEN lex(end_of_name(i), depth, Append(toks, "NAME"))
                     ELSE IF c = Hash
                     THEN lex(end_of_comment(i), depth, toks)
                     ELSE IF c \in {Dq, Sq}
                     THEN LET triple == is_triple(i, c)
                              j == end_of_string(
                                       IF triple THEN i + 3 ELSE i + 1,
                                       c, triple)
                          IN  IF j = 0 \/ j > Len(t) + 1 THEN LexError
                              ELSE lex(j, depth, Append(toks, "STR"))
                     ELSE IF c = "="
                     THEN IF i < Len(t) /\ t[i + 1] = "="
                          THEN lex(i + 2, depth, Append(toks, "EQEQ"))
                          ELSE lex(i + 1, depth, Append(toks, "EQ"))
                     ELSE IF c = "{"
                     THEN lex(i + 1, depth + 1, Append(toks, "LB"))
                     ELSE IF c = "}"
                     THEN IF depth = 0 THEN LexError
                          ELSE lex(i + 1, depth - 1, Append(toks, "RB"))
                     ELSE IF c = Newline
                     THEN lex(i + 1, depth,
                              IF depth = 0 THEN Append(toks, "NL") ELSE toks)
                     ELSE IF c = Backslash
                     THEN IF i + 1 < Len(t) /\ t[i + 1] = Newline
                          THEN lex(i + 2, depth, toks)
                          ELSE LexError
                     ELSE LexError
    IN  lex(1, 0, <<>>)

\* The parser, on tokens: each parse operator returns the index after what
\* it parsed, 0 when it cannot.
\*              atom: NAME | STR+ | { } | { expr }
\*              expr: atom (== atom)*
\*              stmt: (NAME =)* expr
parse_tokens(T) ==
    LET RECURSIVE end_of_strings(_)
        end_of_strings(k) ==
            IF k <= Len(T) /\ T[k] = "STR" THEN end_of_strings(k + 1) ELSE k
        RECURSIVE parse_atom(_), parse_expr(_)
        parse_atom(k) ==
            IF k > Len(T) THEN 0
            ELSE IF T[k] = "NAME" THEN k + 1
            ELSE IF T[k] = "STR" THEN end_of_strings(k)
            ELSE IF T[k] = "LB"
            THEN IF k + 1 <= Len(T) /\ T[k + 1] = "RB" THEN k + 2
                 ELSE LET e == parse_expr(k + 1)
                      IN  IF e # 0 /\ e <= Len(T) /\ T[e] = "RB"
                          THEN e + 1 ELSE 0
            ELSE 0
        parse_expr(k) ==
            LET a == parse_atom(k)
            IN  IF a = 0 THEN 0
                ELSE IF a <= Len(T) /\ T[a] = "EQEQ" THEN parse_expr(a + 1)
                ELSE a
        RECURSIVE parse_stmt(_)
        parse_stmt(k) ==
            LET e == parse_expr(k)
            IN  IF e = 0 THEN 0
                ELSE IF e <= Len(T) /\ T[e] = "EQ"
                THEN IF e = k + 1 /\ T[k] = "NAME" THEN parse_stmt(e + 1)
                     ELSE 0
                ELSE e
        RECURSIVE parse_file(_)
        parse_file(k) ==
            IF k > Len(T) THEN TRUE
            ELSE IF T[k] = "NL" THEN parse_file(k + 1)
            ELSE LET e == parse_stmt(k)
                 IN  /\ e # 0
                     /\ (e > Len(T) \/ T[e] = "NL")
                     /\ parse_file(e)
    IN  T # LexError /\ parse_file(1)
\* is_valid_python_structure: ast.parse(text) raises no SyntaxError.
is_valid_python_structure(t) == parse_tokens(tokenize(t))

\* ------------------------------------------------------------------------
\* is_complete_structure and is_incomplete_structure
\* ------------------------------------------------------------------------
request_indicators ==
    {<<"c","r","e","a","t","e">>, <<"m","a","k","e">>,
     <<"g","e","n","e","r","a","t","e">>, <<"b","u","i","l","d">>,
     <<"w","r","i","t","e">>, <<"d","e","v","e","l","o","p">>,
     <<"i","m","p","l","e","m","e","n","t">>, <<"d","e","s","i","g","n">>,
     <<"s","c","r","i","p","t">>, <<"p","r","o","g","r","a","m">>,
     <<"f","u","n","c","t","i","o","n">>, <<"c","l","a","s","s">>,
     <<"m","o","d","u","l","e">>, <<"t","o","o","l">>,
     <<"a","p","p","l","i","c","a","t","i","o","n">>,
     <<"s","y","s","t","e","m">>}
request_words ==
    {<<"c","r","e","a","t","e">>, <<"m","a","k","e">>,
     <<"g","e","n","e","r","a","t","e">>, <<"b","u","i","l","d">>,
     <<"w","r","i","t","e">>, <<"d","e","v","e","l","o","p">>,
     <<"s","c","r","i","p","t">>, <<"p","r","o","g","r","a","m">>,
     <<"i","m","p","l","e","m","e","n","t">>}

\* The last test of is_complete_structure (lines 752-758): the brackets
\* balance and the text ends with a closing one, or has no opening one.
balanced_and_closed(s) ==
    /\ count(s, "{") = count(s, "}")
    /\ count(s, "[") = count(s, "]")
    /\ count(s, "(") = count(s, ")")
    /\ \/ endswith(s, "}") \/ endswith(s, "]") \/ endswith(s, ")")
       \/ ~has_any(s, {"{", "[", "("})

\* is_valid_python_structure catches SyntaxError only (line 811): what
\* else ast.parse raises leaves is_complete_structure, then
\* is_incomplete_structure and handle_multi_line_input, and is caught in
\* main.  ast.parse raises UnicodeEncodeError for a text with a lone
\* surrogate, which is what input() makes of a byte that is not UTF-8 when
\* stdin decodes with surrogateescape; "U+DC80" is that character.  The
\* call is reached when the stripped text is not empty and has no unclosed
\* string.
parse_raises(t) ==
    LET stripped == strip_chars(t)
    IN  ~has_unclosed_strings(stripped) /\ has_any(stripped, {"U+DC80"})

\* is_complete_structure: whether it returns True (it returns nothing when
\* ast.parse raises).
is_complete_structure(t) ==
    LET stripped == strip_chars(t)
    IN  IF stripped = <<>> THEN FALSE
        ELSE IF has_unclosed_strings(stripped) THEN FALSE
        ELSE IF parse_raises(stripped) THEN FALSE
        ELSE IF is_valid_python_structure(stripped) THEN TRUE
        ELSE IF \E w \in request_indicators : contains(lower(stripped), w)
        THEN TRUE
        ELSE IF ~has_any(stripped, {"{", "[", "=", ":", Dq}) THEN TRUE
        ELSE balanced_and_closed(stripped)

\* A last test that also takes a text ending with a double quote.
extremely_obvious_incomplete_or_quote(s) ==
    \/ endswith(s, "=")
    \/ endswith(s, Dq)
    \/ (endswith(s, "{") /\ count(s, "}") = 0)
    \/ (endswith(s, "[") /\ count(s, "]") = 0)
    \/ (Len(s) < 10 /\ isidentifier(s))

\* The last test of is_incomplete_structure (lines 797-802).
extremely_obvious_incomplete(s) ==
    \/ endswith(s, "=")
    \/ (endswith(s, "{") /\ count(s, "}") = 0)
    \/ (endswith(s, "[") /\ count(s, "]") = 0)
    \/ (Len(s) < 10 /\ isidentifier(s))

\* is_incomplete_structure without its first test.
is_incomplete_structure_unchecked(t) ==
    LET stripped == strip_chars(t)
    IN  IF \E w \in request_words : contains(lower(stripped), w) THEN FALSE
        ELSE IF word_count(stripped) > 5 THEN FALSE
        ELSE extremely_obvious_incomplete(stripped)

\* is_incomplete_structure: whether it returns True (it returns nothing
\* when is_complete_structure raises).
is_incomplete_structure(t) ==
    LET stripped == strip_chars(t)
    IN  IF is_complete_structure(stripped) THEN FALSE
        ELSE IF parse_raises(stripped) THEN FALSE
        ELSE IF \E w \in request_words : contains(lower(stripped), w)
        THEN FALSE
        ELSE IF word_count(stripped) > 5 THEN FALSE
        ELSE extremely_obvious_incomplete(stripped)

\* ------------------------------------------------------------------------
\* handle_multi_line_input and the interactive loop
\* ------------------------------------------------------------------------
END == <<"E", "N", "D">>
CANCEL == <<"C", "A", "N", "C", "E", "L">>
ClearContext ==
    <<"c", "l", "e", "a", "r", " ", "c", "o", "n", "t", "e", "x", "t">>
QuitWords == {<<"q", "u", "i", "t">>, <<"e", "x", "i", "t">>, <<"q">>}

\* Line 1225: the buffer is released once it is no longer judged incomplete.
release_ready(buffer) == ~is_incomplete_structure(buffer)

\* A handler for which CANCEL releases the buffer as END does.
handle_multi_line_input_cancel_as_end(mlm, cur, user_input) ==
    IF ~mlm
    THEN IF parse_raises(user_input)
         THEN [multi_line_mode |-> FALSE, current_input |-> cur,
               returns |-> NoInput, by |-> "raised"]
         ELSE IF ~is_incomplete_structure(user_input)
         THEN [multi_line_mode |-> FALSE, current_input |-> cur,
               returns |-> user_input, by |-> "direct"]
         ELSE [multi_line_mode |-> TRUE, current_input |-> user_input,
               returns |-> NoInput, by |-> "none"]
    ELSE IF upper(strip_chars(user_input)) \in {END, CANCEL}
    THEN [multi_line_mode |-> FALSE, current_input |-> <<>>,
          returns |-> cur, by |-> "end"]
    ELSE LET appended == cur \o <<Newline>> \o user_input
         IN  IF parse_raises(appended)
             THEN [multi_line_mode |-> TRUE, current_input |-> appended,
                   returns |-> NoInput, by |-> "raised"]
             ELSE IF release_ready(appended)
             THEN [multi_line_mode |-> FALSE, current_input |-> <<>>,
                   returns |-> appended, by |-> "append"]
             ELSE [multi_line_mode |-> TRUE, current_input |-> appended,
                   returns |-> NoInput, by |-> "none"]

\* handle_multi_line_input: the fields after the call, what it returns and
\* the branch that returned it.  When is_incomplete_structure raises, the
\* call is left by the exception ("raised"): nothing is returned and the
\* fields stay as they are at that point, the line being appended already
\* in multi-line mode (line 1223 precedes the test of line 1225).
handle_multi_line_input(mlm, cur, user_input) ==
    IF ~mlm
    THEN IF parse_raises(user_input)
         THEN [multi_line_mode |-> FALSE, current_input |-> cur,
               returns |-> NoInput, by |-> "raised"]
         ELSE IF ~is_incomplete_structure(user_input)
         THEN [multi_line_mode |-> FALSE, current_input |-> cur,
               returns |-> user_input, by |-> "direct"]
         ELSE [multi_line_mode |-> TRUE, current_input |-> user_input,
               returns |-> NoInput, by |-> "none"]
    ELSE IF upper(strip_chars(user_input)) = END
    THEN [multi_line_mode |-> FALSE, current_input |-> <<>>,
          returns |-> cur, by |-> "end"]
    ELSE IF upper(strip_chars(user_input)) = CANCEL
    THEN [multi_line_mode |-> FALSE, current_input |-> <<>>,
          returns |-> NoInput, by |-> "none"]
    ELSE LET appended == cur \o <<Newline>> \o user_input
         IN  IF parse_raises(appended)
             THEN [multi_line_mode |-> TRUE, current_input |-> appended,
                   returns |-> NoInput, by |-> "raised"]
             ELSE IF release_ready(appended)
             THEN [multi_line_mode |-> FALSE, current_input |-> <<>>,
                   returns |-> appended, by |-> "append"]
             ELSE [multi_line_mode |-> TRUE, current_input |-> appended,
                   returns |-> NoInput, by |-> "none"]

\* A loop that hands every line to process_request_with_retry.
has_request_always(processed) == TRUE

\* Line 1504: process_request_with_retry runs when something was returned.
has_request(processed) == processed # NoInput

\* SpecMain: the requests processed in one session.
MaxRequests == 2

\* The characters of a buffer kept in multi-line mode.
MaxBufferLen == 13

\* The lines typed at the prompt.
InputLines ==
    {<<"a", "=", "{">>, <<"a", "=">>, <<"a">>, <<"}">>, <<Dq>>,
     <<"m", "a", "k", "e">>, END, <<"e", "n", "d">>, CANCEL, ClearContext,
     <<"q">>, <<>>, <<"U+DC80">>}

\* One round of main's loop up to the call of process_request_with_retry
\* (lines 1471-1504); an exception raised in handle_multi_line_input is
\* caught at line 1512 and the loop goes on.
ReadLine(line) ==
    /\ mainpc = "prompt"
    /\ modelCalls < MaxRequests
    /\ LET user_input == strip_chars(line)
           r == handle_multi_line_input(multi_line_mode, current_input,
                                        user_input)
       IN  IF user_input = <<>>
           THEN /\ lastLine' = [NoLine EXCEPT !.line = user_input,
                                   !.mode_before = multi_line_mode,
                                   !.mode_after = multi_line_mode,
                                   !.buffer_after = current_input]
                /\ UNCHANGED <<mainpc, multi_line_mode, current_input,
                               processed_input>>
           ELSE IF lower(user_input) \in QuitWords
           THEN /\ mainpc' = "exited"
                /\ lastLine' = [NoLine EXCEPT !.line = user_input,
                                   !.mode_before = multi_line_mode,
                                   !.mode_after = multi_line_mode,
                                   !.buffer_after = current_input]
                /\ UNCHANGED <<multi_line_mode, current_input,
                               processed_input>>
           ELSE IF lower(user_input) = ClearContext
           THEN /\ multi_line_mode' = FALSE
                /\ current_input' = <<>>
                /\ lastLine' = [NoLine EXCEPT !.line = user_input,
                                   !.mode_before = multi_line_mode]
                /\ UNCHANGED <<mainpc, processed_input>>
           ELSE /\ Len(r.current_input) <= MaxBufferLen
                /\ multi_line_mode' = r.multi_line_mode
                /\ current_input' = r.current_input
                /\ processed_input' = r.returns
                /\ mainpc' = (IF has_request(r.returns)
                              THEN "request" ELSE "prompt")
                /\ lastLine' = [handled |-> TRUE, line |-> user_input,
                                mode_before |-> multi_line_mode,
                                returned |-> r.returns,
                                mode_after |-> r.multi_line_mode,
                                buffer_after |-> r.current_input,
                                released_by |-> r.by]
    /\ UNCHANGED <<orchVars, fsVars, obsVars, textVars, structVars,
                   callVars, toolVars>>

\* process_request_with_retry called from main (line 1506), by what the
\* session sees of it: the model is called (counted once per request) and
\* save_code is reached or not.
ProcessRequest(saved) ==
    /\ mainpc = "request"
    /\ modelCalls' = modelCalls + 1
    /\ saves' = saves + (IF saved THEN 1 ELSE 0)
    /\ processed_input' = NoInput
    /\ mainpc' = "prompt"
    /\ UNCHANGED <<pc, request, attempt, pass, code, filename, files,
                   backups, now, obsVars, textVars, multi_line_mode,
                   current_input, lastLine, structVars, callVars,
                   toolVars>>

\* No request is being handled by the orchestrator.
OrchIdle ==
    /\ pc = "idle"
    /\ request \in {[explicit |-> TRUE, base |-> "math_tools"]}
    /\ attempt = 1
    /\ pass = 0
    /\ code = NoCode
    /\ filename = NoFilename
    /\ modelCalls = 0
    /\ files = NoFiles
    /\ backups = NoFiles
    /\ now = 0
    /\ saves = 0
    /\ ObsInit

\* UltimatePythonCodeGenerator.__init__ (lines 523-524) and main's prompt.
InitMain ==
    /\ OrchIdle
    /\ TextIdle
    /\ AuxIdle("main")
    /\ mainpc = "prompt"
    /\ multi_line_mode = FALSE
    /\ current_input = <<>>
    /\ processed_input = NoInput
    /\ lastLine = NoLine

NextMain ==
    \/ \E line \in InputLines : ReadLine(line)
    \/ \E saved \in BOOLEAN : ProcessRequest(saved)

SpecMain == InitMain /\ [][NextMain]_vars

\* ------------------------------------------------------------------------
\* SpecStructure: is_complete_structure on bounded texts
\* ------------------------------------------------------------------------
\* The length of a text, in characters.
MaxTextLen == 5
StructureChars == {"a", "=", Dq, Sq, Backslash, Hash}
Texts == SeqsUpTo(StructureChars, MaxTextLen) \ {<<>>}

\* is_complete_structure called on the text.
IsCompleteStructure ==
    /\ ~classified
    /\ classified' = TRUE
    /\ complete' = is_complete_structure(text)
    /\ UNCHANGED <<text, orchVars, fsVars, obsVars, textVars, mainVars,
                   callVars, toolVars>>

InitStructure ==
    /\ OrchIdle
    /\ TextIdle
    /\ AuxIdle("structure")
    /\ text \in Texts
    /\ classified = FALSE
    /\ complete = FALSE

SpecStructure == InitStructure /\ [][IsCompleteStructure]_vars

\* ------------------------------------------------------------------------
\* SpecCall: call_model on one run of the model process
\* ------------------------------------------------------------------------
\* The length of what the process writes to a stream, in characters.
MaxOutLen == 2
\* What a run of "ollama run" does: Popen or communicate raises (Ctrl-C, a
\* missing binary, any other exception), or the process exits with a return
\* code and what it wrote to its two streams.
ModelRuns ==
    {[raises |-> x, returncode |-> 0, stdout |-> <<>>, stderr |-> <<>>] :
        x \in {"KeyboardInterrupt", "FileNotFoundError", "Exception"}}
    \cup {[raises |-> "none", returncode |-> rc, stdout |-> out,
           stderr |-> err] :
            rc \in {0, 1, 2},
            out \in SeqsUpTo({"a", " ", Newline}, MaxOutLen),
            err \in SeqsUpTo({"w", Newline}, MaxOutLen)}

\* call_model: None when an exception is caught or the return code is not
\* zero, else the stripped standard output; standard error is read only
\* for the message printed on a non-zero return code.
call_model_run(run) ==
    IF run.raises = "none" /\ run.returncode = 0
    THEN strip_chars(run.stdout) ELSE NoResponse

CallModel ==
    /\ ~modelReturned
    /\ modelReturned' = TRUE
    /\ modelResponse' = call_model_run(modelRun)
    /\ UNCHANGED <<modelRun, stepVars, orchVars, fsVars, obsVars, textVars,
                   mainVars, structVars, toolVars>>

InitCall ==
    /\ OrchIdle
    /\ TextIdle
    /\ AuxIdle("call")
    /\ modelRun \in ModelRuns
    /\ modelReturned = FALSE
    /\ modelResponse = NoResponse

SpecCall == InitCall /\ [][CallModel]_vars

\* ------------------------------------------------------------------------
\* SpecCallSteps: call_model step by step, with its indicator thread and
\* the model subprocess running beside the main flow
\* ------------------------------------------------------------------------
\* The carriage-return lines the indicator thread prints.
MaxPrints == 2

nonStepVars == <<orchVars, fsVars, obsVars, textVars, mainVars, structVars,
                  toolVars, modelRun, modelReturned, modelResponse>>

\* A finally clause that leaves the event as it is.
left_as_is(event) == event

\* "if thinking_active: thinking_active.clear()" of the finally clause: an
\* Event object is true, None is not.
cleared_if_created(event) == IF event = "None" THEN "None" ELSE "clear"

\* The two prints, the event created and set, the thread created and
\* started.
StartIndicator ==
    /\ cpc = "start"
    /\ thinking_active' = "set"
    /\ progress_thread' = [progress_thread EXCEPT !.state = "running"]
    /\ cpc' = "popen"
    /\ UNCHANGED <<process, callExit, nonStepVars>>

\* show_thinking_progress, one turn of its loop: a line is printed while
\* the event is set; once it is clear the final print is made and the
\* thread ends.
ShowThinkingProgress ==
    /\ progress_thread.state = "running"
    /\ IF thinking_active = "set"
       THEN /\ progress_thread.prints < MaxPrints
            /\ progress_thread' = [progress_thread EXCEPT !.prints = @ + 1]
       ELSE progress_thread' = [progress_thread EXCEPT !.state = "finished"]
    /\ UNCHANGED <<cpc, thinking_active, process, callExit, nonStepVars>>

\* subprocess.Popen: the process is started, or the call raises (binary
\* missing, Ctrl-C, any other exception) and no process object exists.  An
\* exception is caught by one of the three handlers, which print and
\* return None: the finally clause runs next.
Popen ==
    /\ cpc = "popen"
    /\ \E raises \in {"none", "FileNotFoundError", "KeyboardInterrupt",
                      "Exception"} :
        IF raises = "none"
        THEN /\ process' = [process EXCEPT !.state = "running"]
             /\ cpc' = "communicate"
             /\ UNCHANGED callExit
        ELSE /\ cpc' = "finally"
             /\ callExit' = "None"
             /\ UNCHANGED process
    /\ UNCHANGED <<thinking_active, progress_thread, nonStepVars>>

\* The model process ends by itself, with a return code.
ProcessExits ==
    /\ process.state = "running"
    /\ \E rc \in {0, 1} :
        process' = [process EXCEPT !.state = "exited", !.returncode = rc]
    /\ UNCHANGED <<cpc, thinking_active, progress_thread, callExit,
                   nonStepVars>>

\* process.communicate: returns once the process has ended; Ctrl-C while
\* it waits raises KeyboardInterrupt out of it, the process being left as
\* it is.
Communicate ==
    /\ cpc = "communicate"
    /\ \/ /\ process.state = "exited"
          /\ cpc' = "stop_indicator"
          /\ UNCHANGED callExit
       \/ /\ cpc' = "finally"
          /\ callExit' = "None"
    /\ UNCHANGED <<thinking_active, progress_thread, process, nonStepVars>>

\* After communicate: the event is cleared and the thread joined (join
\* returns when the thread has ended or after its timeout); then the
\* return code is tested and None or the output returned.  Ctrl-C during
\* the join is caught by the handler.  In each case the finally clause
\* runs next.
AfterCommunicate ==
    /\ cpc = "stop_indicator"
    /\ thinking_active' = "clear"
    /\ progress_thread' = [progress_thread EXCEPT !.joins = @ + 1]
    /\ \E interrupted \in BOOLEAN :
        callExit' = IF ~interrupted /\ process.returncode = 0
                    THEN "output" ELSE "None"
    /\ cpc' = "finally"
    /\ UNCHANGED <<process, nonStepVars>>

\* The finally clause, first part: the event is cleared when it exists,
\* the thread joined when it exists.  Ctrl-C during the join raises
\* KeyboardInterrupt out of the finally clause and so out of call_model:
\* the rest of the clause is not run.
FinallyIndicator ==
    /\ cpc = "finally"
    /\ thinking_active' = cleared_if_created(thinking_active)
    /\ IF progress_thread.state = "None"
       THEN /\ cpc' = "finally_process"
            /\ UNCHANGED <<progress_thread, callExit>>
       ELSE /\ progress_thread' = [progress_thread EXCEPT !.joins = @ + 1]
            /\ \/ /\ cpc' = "finally_process"
                  /\ UNCHANGED callExit
               \/ /\ cpc' = "left"
                  /\ callExit' = "raised"
    /\ UNCHANGED <<process, nonStepVars>>

\* The finally clause, second part: a process object whose poll() is None
\* is sent terminate and waited for five seconds; when the wait times
\* out or is interrupted the bare except sends kill.
FinallyProcess ==
    /\ cpc = "finally_process"
    /\ IF process.state = "running"
       THEN \E exits_in_time \in BOOLEAN :
                process' =
                    [process EXCEPT
                        !.state = "exited",
                        !.returncode = IF exits_in_time THEN -15 ELSE -9,
                        !.signals = IF exits_in_time THEN <<"terminate">>
                                    ELSE <<"terminate", "kill">>]
       ELSE UNCHANGED process
    /\ cpc' = "left"
    /\ UNCHANGED <<thinking_active, progress_thread, callExit, nonStepVars>>

\* call_model is entered: no event, no thread, no process (lines 856-858).
InitCallSteps ==
    /\ OrchIdle
    /\ TextIdle
    /\ AuxIdle("steps")
    /\ cpc = "start"
    /\ thinking_active = "None"
    /\ progress_thread = [state |-> "None", prints |-> 0, joins |-> 0]
    /\ process = [state |-> "None", returncode |-> 0, signals |-> <<>>]
    /\ callExit = "pending"

SpecCallSteps ==
    InitCallSteps /\ [][\/ StartIndicator
                        \/ ShowThinkingProgress
                        \/ Popen
                        \/ ProcessExits
                        \/ Communicate
                        \/ AfterCommunicate
                        \/ FinallyIndicator
                        \/ FinallyProcess]_vars

\* ------------------------------------------------------------------------
\* SpecValidators: validate_and_fix_code and its caller in process_request
\* ------------------------------------------------------------------------
\* The steps of validate_and_fix_code, in the order of its body.
ToolOrder ==
    <<"syntax", "black", "autopep8", "isort", "bandit", "flake8", "mypy",
      "pylint", "z3", "coverage", "interrogate", "vulture", "pathspec",
      "improvements">>

\* How the tool of a step can behave. A tool run by subprocess.run can be
\* absent (FileNotFoundError), time out (TimeoutExpired) or fail to start
\* for another reason ("error", an OSError such as PermissionError); it can
\* exit with code zero or not (the fixers), report issues or none (the
\* analysers). The other steps read the code only.
tool_statuses(tool) ==
    CASE tool \in {"black", "autopep8", "isort"} ->
            {"ok", "nonzero", "absent", "timeout", "error"}
      [] tool \in {"bandit", "flake8", "mypy", "pylint", "interrogate",
                   "vulture"} ->
            {"ok", "issues", "absent", "timeout", "error"}
      [] tool = "z3" -> {"ok", "nonzero", "absent", "timeout", "error"}
      [] tool = "improvements" -> {"changed", "unchanged"}
      [] OTHER -> {"ok"}

\* The except clause of a step's runner: (TimeoutExpired,
\* FileNotFoundError) around subprocess.run, a bare except in
\* _run_z3_analysis.
catches_only_absent(tool, status) ==
    tool = "z3" \/ status = "absent"
catches(tool, status) ==
    tool = "z3" \/ status \in {"absent", "timeout"}

\* The results dictionary after a step that did not raise. The candidate
\* has no docstring, no import and no call of eval or exec, which is what
\* the fallbacks of bandit, interrogate and vulture look for.
run_step(tool, status, res, candidate) ==
    LET warn(category) ==
            [res EXCEPT !.warnings = res.warnings \cup {category}]
        skipped == status \in {"absent", "timeout"}
    IN  CASE tool = "syntax" ->
                IF candidate = <<"invalid">>
                THEN [res EXCEPT !.valid = FALSE] ELSE res
          [] tool \in {"black", "autopep8", "isort"} ->
                IF status = "ok"
                THEN [res EXCEPT
                        !.fixes_applied = Append(res.fixes_applied, tool),
                        !.improved_code = Append(res.improved_code, tool)]
                ELSE res
          [] tool = "bandit" ->
                IF status = "issues" THEN warn("Security") ELSE res
          [] tool = "flake8" ->
                IF status = "issues" \/ skipped THEN warn("Style") ELSE res
          [] tool = "mypy" ->
                IF status = "issues" \/ skipped THEN warn("Type") ELSE res
          [] tool = "pylint" ->
                IF status = "issues" \/ skipped THEN warn("Quality")
                ELSE res
          [] tool = "z3" -> IF status = "ok" THEN warn("Logic") ELSE res
          [] tool = "interrogate" ->
                IF status = "issues" \/ skipped THEN warn("Documentation")
                ELSE res
          [] tool = "vulture" ->
                IF status = "issues" THEN warn("Dead code") ELSE res
          [] tool = "improvements" ->
                IF status = "changed"
                THEN [res EXCEPT
                        !.fixes_applied =
                            Append(res.fixes_applied, "ENHANCEMENTS"),
                        !.improved_code =
                            Append(res.improved_code, "ENHANCEMENTS")]
                ELSE res
          [] OTHER -> res

\* The next step of validate_and_fix_code: its tool behaves as status says.
\* An exception the runner does not catch leaves validate_and_fix_code and
\* process_request; a syntax error and the last step return the results.
RunStep(status) ==
    /\ valpc = "validating"
    /\ LET k == Len(toolsRun) + 1
           tool == ToolOrder[k]
       IN  /\ status \in tool_statuses(tool)
           /\ toolsRun' = Append(toolsRun, tool)
           /\ lastStatus' = status
           /\ toolSkips' =
                 toolSkips + (IF status \in {"absent", "timeout"}
                              THEN 1 ELSE 0)
           /\ IF status \in {"absent", "timeout", "error"}
                 /\ ~catches(tool, status)
              THEN /\ valpc' = "raised"
                   /\ vresults' = vresults
              ELSE LET r == run_step(tool, status, vresults, vcode)
                   IN  /\ vresults' = r
                       /\ valpc' = (IF ~r.valid \/ k = Len(ToolOrder)
                                    THEN "returned" ELSE "validating")
    /\ UNCHANGED <<vcode, orchVars, fsVars, obsVars, textVars, mainVars,
                   structVars, callVars>>

\* process_request after the validator returned (lines 1349-1364): the
\* improved code replaces the candidate when a fix was applied, and
\* save_code is called.
ProceedToSave ==
    /\ valpc = "returned"
    /\ valpc' = "save_code"
    /\ vcode' = (IF vresults.fixes_applied # <<>>
                 THEN vresults.improved_code ELSE vcode)
    /\ UNCHANGED <<toolsRun, lastStatus, toolSkips, vresults, orchVars,
                   fsVars, obsVars, textVars, mainVars, structVars,
                   callVars>>

InitValidators ==
    /\ OrchIdle
    /\ TextIdle
    /\ AuxIdle("validators")
    /\ valpc = "validating"
    /\ vcode \in {<<"candidate">>, <<"invalid">>}
    /\ toolsRun = <<>>
    /\ lastStatus = "none"
    /\ toolSkips = 0
    /\ vresults = [valid |-> TRUE, warnings |-> {}, fixes_applied |-> <<>>,
                   improved_code |-> vcode]

NextValidators ==
    \/ \E status \in {"ok", "nonzero", "issues", "absent", "timeout",
                      "error", "changed", "unchanged"} : RunStep(status)
    \/ ProceedToSave

SpecValidators == InitValidators /\ [][NextValidators]_vars

\* ------------------------------------------------------------------------
\* Properties of the request loop (Spec)
\* ------------------------------------------------------------------------

\* C1: when every model call of a request fails at the transport level,
\* process_request_with_retry makes exactly MAX_RETRIES attempts, one model
\* call each, and then returns False; no request gets a further attempt
\* after MAX_RETRIES, nor after an attempt that succeeded.
C1_RetryBound ==
    /\ attempt \in 1..MAX_RETRIES
    /\ (onlyTransport /\ pc = "generate") => modelCalls = attempt - 1
    /\ (onlyTransport /\ pc = "failed") =>
          (attempt = MAX_RETRIES /\ modelCalls = MAX_RETRIES)
    /\ (onlyTransport /\ modelCalls > 0) => pc \in {"generate", "failed"}
    /\ succeededAt # 0 => (pc = "done" /\ attempt = succeededAt)

\* C1 witness: a request has failed after three transport failures.
C1_Witness ==
    pc = "failed" /\ onlyTransport /\ modelCalls = MAX_RETRIES

\* C2: once the user has interrupted a model call of a request, the request
\* is in FAILED at once: no further attempt starts and no further model
\* call is made.
C2_InterruptIsFatal ==
    interruptedAt > 0 =>
        /\ pc = "failed"
        /\ modelCalls = interruptedAt
        /\ attempt = interruptedIn

\* C3: every content passed to save_code is syntactically valid.
C3_OnlyValidSaved ==
    \A c \in savedCodes : validate_python_code(c)

\* C6: one request opens at most one target for writing and writes at most
\* one backup over all its attempts, a target is opened only by the attempt
\* that returns success, and a request that failed has written no target.
C6_OneWritePerRequest ==
    /\ Cardinality(reqTargets) <= 1
    /\ Cardinality(reqBackups) <= 1
    /\ failedWrites = {}
    /\ pc = "failed" => reqTargets = {}

\* ------------------------------------------------------------------------
\* Properties of save_code (SpecSave)
\* ------------------------------------------------------------------------

\* C4: after a save_code call that found its target existing, the backup
\* directory holds a file whose content is the target's content from before
\* the overwrite.
C4_BackupInvariant ==
    (lastSave.called /\ lastSave.existed) =>
        \E b \in DOMAIN backups : backups[b] = lastSave.pre

\* C5: a backup is a copy of a target as it was before the overwrite, and
\* once written it is neither deleted nor overwritten.
C5_BackupsKept ==
    [][/\ \A b \in DOMAIN backups :
              b \in DOMAIN backups' /\ backups'[b] = backups[b]
       /\ \A b \in DOMAIN backups' \ DOMAIN backups :
              \E p \in DOMAIN files : backups'[b] = files[p]]_vars

\* ------------------------------------------------------------------------
\* Properties of the merger and the extractor (SpecText)
\* ------------------------------------------------------------------------
\* A "run if invoked directly" guard, with either kind of quotes.
is_guard_line(l) == strip(l) \in {GuardDq, GuardSq}
guard_count(lines) ==
    Cardinality({k \in 1..Len(lines) : is_guard_line(lines[k])})
\* Definitions of the unified entry point.
def_main_count(lines) ==
    Cardinality({k \in 1..Len(lines) : strip(lines[k]) = "def main():"})
\* The script ends with the guard calling main().
ends_with_guard(lines) ==
    /\ Len(lines) >= 2
    /\ lines[Len(lines) - 1] = GuardDq
    /\ lines[Len(lines)] = "    main()"
\* _merge_code_blocks has merged two or more blocks into result.
MergedSeveral ==
    tpc = "done" /\ mergeCalls = 1 /\ Len(code_blocks) >= 2

\* C7: the merge of two or more blocks holds exactly one "run if invoked
\* directly" guard, however the blocks wrote their own guards.
C7_OneGuard ==
    MergedSeveral => guard_count(result) = 1

\* C8: the merge of two or more blocks defines exactly one unified entry
\* point, main, and ends with the guard that calls it.
C8_OneEntryPoint ==
    MergedSeveral => (def_main_count(result) = 1 /\ ends_with_guard(result))

\* C9: the renamed main functions of the merged blocks have pairwise
\* distinct names.
C9_DistinctMainNames ==
    MergedSeveral =>
        LET fs == merge_collect(code_blocks).main_functions
        IN  \A j, k \in 1..Len(fs) : j # k => fs[j].name # fs[k].name

\* The response holds exactly one fenced block with at least one line: one
\* opening fence and either its closing fence or the end of the text, and
\* no other fence line.
fence_lines(lines) ==
    {k \in 1..Len(lines) : starts_with_fence(strip(lines[k]))}
one_fenced_block(lines) ==
    \/ \E i \in 1..Len(lines) :
          fence_lines(lines) = {i} /\ i < Len(lines)
    \/ \E i, j \in 1..Len(lines) :
          /\ fence_lines(lines) = {i, j}
          /\ i + 1 < j
          /\ strip(lines[j]) = Fence
\* The code between the fences of that block, stripped.
fenced_code(lines) ==
    LET i == CHOOSE k \in fence_lines(lines) :
                 \A m \in fence_lines(lines) : k <= m
        j == CHOOSE k \in fence_lines(lines) :
                 \A m \in fence_lines(lines) : k >= m
    IN  strip_text(SubSeq(lines, i + 1, IF j > i THEN j - 1 ELSE Len(lines)))

\* C10: _merge_code_blocks on a one-block list returns the block's code
\* unchanged, and extract_python_code on a response with exactly one fenced
\* block returns that block's code without calling _merge_code_blocks.
C10_SingleBlockUnchanged ==
    /\ (mode = "merge" /\ tpc = "done" /\ Len(code_blocks) = 1) =>
          result = code_blocks[1].code
    /\ (mode = "extract" /\ tpc = "done" /\ one_fenced_block(response_lines)) =>
          (result = fenced_code(response_lines) /\ mergeCalls = 0)

\* C10 witness: a single block with its own main and guard went through
\* _merge_code_blocks and came back as it was.
C10_Witness ==
    /\ mode = "merge"
    /\ tpc = "done"
    /\ Len(code_blocks) = 1
    /\ code_blocks[1].code = <<"def main():", "    run()", GuardDq, "    main()">>
    /\ result = code_blocks[1].code

\* ------------------------------------------------------------------------
\* Properties of the interactive loop (SpecMain)
\* ------------------------------------------------------------------------
\* C11: a line judged incomplete outside multi-line mode puts the loop in
\* multi-line mode without a request being processed, and while
\* multi_line_mode is true no model call and no save_code call is made.
C11_NoCallWhileMultiLine ==
    /\ []((lastLine.handled /\ ~lastLine.mode_before
              /\ is_incomplete_structure(lastLine.line))
            => (multi_line_mode /\ mainpc = "prompt"
                  /\ lastLine.returned = NoInput))
    /\ [][/\ multi_line_mode => (modelCalls' = modelCalls /\ saves' = saves)
          /\ multi_line_mode' => mainpc' # "request"]_vars

\* C11 witness: the line a={ and two further lines are buffered and the
\* model has not been called.
C11_Witness ==
    /\ multi_line_mode
    /\ SubSeq(current_input, 1, 3) = <<"a", "=", "{">>
    /\ count(current_input, Newline) = 2
    /\ modelCalls = 0
    /\ saves = 0

\* C12: the buffer is non-empty only in multi-line mode, and in multi-line
\* mode it is a text that is_incomplete_structure judges incomplete.
C12_BufferInvariant ==
    /\ current_input # <<>> => multi_line_mode
    /\ multi_line_mode => is_incomplete_structure(current_input)

\* C13: a buffer released by appending a line (not by END) is structurally
\* complete.
C13_ReleasedWhenComplete ==
    lastLine.released_by = "append" => is_complete_structure(lastLine.returned)

\* C14: a line for which is_complete_structure is true, read outside
\* multi-line mode, is returned unchanged at once, with multi_line_mode
\* false and the buffer empty.
C14_CompleteInputReturned ==
    (lastLine.handled /\ ~lastLine.mode_before
        /\ is_complete_structure(lastLine.line))
    => /\ lastLine.returned = lastLine.line
       /\ ~lastLine.mode_after
       /\ lastLine.buffer_after = <<>>

\* C14 witness: the bare name a, complete because it parses, was read at
\* the prompt and handed on as the request.
C14_Witness ==
    /\ lastLine.handled
    /\ ~lastLine.mode_before
    /\ lastLine.line = <<"a">>
    /\ processed_input = <<"a">>
    /\ mainpc = "request"

\* ------------------------------------------------------------------------
\* Properties of is_complete_structure (SpecStructure)
\* ------------------------------------------------------------------------
\* C15: a text that parses as valid source is judged complete.
C15_ValidSourceIsComplete ==
    (classified /\ text # <<>> /\ is_valid_python_structure(text)) => complete

\* A double quote is unescaped when an even number of backslashes precedes
\* it.
RECURSIVE backslashes_before(_, _)
backslashes_before(t, k) ==
    IF k > 1 /\ t[k - 1] = Backslash
    THEN 1 + backslashes_before(t, k - 1) ELSE 0
unescaped_double_quotes(t) ==
    Cardinality({k \in 1..Len(t) :
        t[k] = Dq /\ backslashes_before(t, k) % 2 = 0})

\* C16: a text with an odd number of unescaped double quotes is judged not
\* complete.
C16_OddQuotesIncomplete ==
    (classified /\ unescaped_double_quotes(text) % 2 = 1) => ~complete

\* ------------------------------------------------------------------------
\* Properties of the fallback extraction (SpecText)
\* ------------------------------------------------------------------------
\* The lines of a response that are code.
is_code_line(l) == l \in {"def main():", "x = 1"}
fence_free(lines) ==
    \A k \in 1..Len(lines) : ~starts_with_fence(strip(lines[k]))

\* C17: from a response without a fence marker extract_python_code returns
\* nothing or the response with every one of its code lines present, never
\* a part of the code.
C17_FenceFreeCodeKept ==
    (mode = "extract" /\ tpc = "done" /\ fence_free(response_lines))
        => \/ result = <<>>
           \/ \A k \in 1..Len(response_lines) :
                  is_code_line(response_lines[k])
                      => \E j \in 1..Len(result) :
                             result[j] = response_lines[k]

\* ------------------------------------------------------------------------
\* Properties of the written path (Spec)
\* ------------------------------------------------------------------------
\* The segments of a filename's stem between its path separators.
path_segments(base) ==
    CASE base = "../evil" -> <<"..", "evil">>
      [] OTHER -> <<base>>
\* A sanitized filename is one segment that is not "..".
sanitized(fname) ==
    LET segs == path_segments(fname.base)
    IN  Len(segs) = 1 /\ segs[1] # ".."

\* C18: every path save_code opens for writing has a sanitized filename, so
\* the write stays inside the output directory.
C18_WritesInsideOutputDir ==
    \A p \in reqTargets : p.dir = DEFAULT_OUTPUT_DIR /\ sanitized(p.name)

\* ------------------------------------------------------------------------
\* Properties of call_model (SpecCall)
\* ------------------------------------------------------------------------
\* C19: call_model returns a response text only when the process exited
\* with code zero and wrote nothing to standard error.
C19_ResponseOnlyOnCleanRun ==
    (modelReturned /\ modelResponse \notin {NoResponse, <<>>})
        => (modelRun.returncode = 0 /\ modelRun.stderr = <<>>)

\* ------------------------------------------------------------------------
\* Properties of validate_and_fix_code (SpecValidators)
\* ------------------------------------------------------------------------
\* The steps that run a tool by subprocess.run.
SubprocessTools ==
    {"black", "autopep8", "isort", "bandit", "flake8", "mypy", "pylint",
     "z3", "interrogate", "vulture"}

\* C20: a validation tool that is absent or times out raises nothing out
\* of validate_and_fix_code: the step after it runs next, in order; for a
\* candidate that parses the results are returned after all the steps have
\* run, and process_request then calls save_code with the candidate or its
\* improved code.
C20_ToolsNonFatal ==
    /\ [](valpc = "raised" => lastStatus = "error")
    /\ []((valpc \in {"returned", "save_code"} /\ vresults.valid)
            => toolsRun = ToolOrder)
    /\ [][/\ (valpc = "validating" /\ lastStatus' \in {"absent", "timeout"})
              => /\ toolsRun' = SubSeq(ToolOrder, 1, Len(toolsRun) + 1)
                 /\ valpc' \in {"validating", "returned"}
          /\ valpc = "returned"
              => /\ valpc' = "save_code"
                 /\ vcode' \in {vcode, vresults.improved_code}]_vars
\* Every tool run by subprocess.run was absent or timed out, and save_code
\* is called.
C20_Witness ==
    /\ valpc = "save_code"
    /\ toolsRun = ToolOrder
    /\ toolSkips = Cardinality(SubprocessTools)
    /\ vresults.valid

\* ------------------------------------------------------------------------
\* Properties of the filename (Spec)
\* ------------------------------------------------------------------------
\* The first three of the words, joined by underscores.
RECURSIVE joined(_)
joined(ws) ==
    IF ws = <<>> THEN "script"
    ELSE IF Len(ws) = 1 THEN ws[1]
    ELSE ws[1] \o "_" \o joined(Tail(ws))
first_three(ws) == joined(SubSeq(ws, 1, IF Len(ws) < 3 THEN Len(ws) ELSE 3))
StopWords ==
    {"make", "create", "generate", "write", "a", "an", "the", "file",
     "script", "program"}
\* The filename of the last save_code call is the one the rule gives for
\* every request text the request stands for; the rule derives a name from
\* the words as form(word) gives them.
filename_by_rule(form(_)) ==
    lastSave.called =>
        \A words \in RequestTexts :
            request = request_name(words) =>
                LET specified == extract_filename_from_request(words)
                    name == lastSave.path.name
                    formed == [k \in 1..Len(words) |-> form(words[k])]
                    kept == SelectSeq(formed,
                                LAMBDA w : w # "" /\ w \notin StopWords)
                IN  IF specified # NoSpecifiedName
                    THEN name = [base |-> word_facts(specified).stem,
                                 stamped |-> FALSE, ts |-> 0]
                    ELSE /\ name.stamped
                         /\ name.ts \in 0..now
                         /\ name.base = first_three(kept)
lowered(w) == word_facts(w).lower
lowered_alnum(w) == word_facts(w).alnum

\* C21 as stated: the name saved under is the explicit name without a
\* timestamp, or the first three lower-cased words that are no stop words,
\* joined by underscores and followed by a timestamp.
C21_FilenameFromWords == filename_by_rule(lowered)
\* C21: the same, the words being also stripped of their characters that
\* are not alphanumeric before the stop words and the empty ones are
\* dropped.
C21_FilenameFromCleanWords == filename_by_rule(lowered_alnum)
C21_Witness ==
    /\ lastSave.called
    /\ request = request_name(<<"Make", "a", "Hello", "world", "program">>)
    /\ lastSave.path.name.stamped
    /\ lastSave.path.name.base = "hello_world"
    /\ pc = "done"

\* ------------------------------------------------------------------------
\* Properties of validate_code_with_model (Spec)
\* ------------------------------------------------------------------------
\* C22: on every pass the candidate validate_code_with_model holds is
\* replaced only by a revision that is syntactically valid, so it returns
\* such a revision or the candidate it was given.
C22_RevisionOnlyIfValid ==
    [][(pc = "review" /\ code' # code) => validate_python_code(code')]_vars

\* ------------------------------------------------------------------------
\* Properties of is_incomplete_structure (SpecMain)
\* ------------------------------------------------------------------------
\* The request verbs.
RequestVerbs ==
    {<<"c","r","e","a","t","e">>, <<"m","a","k","e">>,
     <<"g","e","n","e","r","a","t","e">>, <<"b","u","i","l","d">>,
     <<"w","r","i","t","e">>, <<"d","e","v","e","l","o","p">>,
     <<"s","c","r","i","p","t">>, <<"p","r","o","g","r","a","m">>,
     <<"i","m","p","l","e","m","e","n","t">>}
\* t ends with an opening bracket that no closing one matches.
ends_unmatched(t, open, close) ==
    endswith(t, open) /\ count(t, open) > count(t, close)
narrowly_incomplete(t) ==
    /\ ~is_complete_structure(t)
    /\ \A w \in RequestVerbs : ~contains(t, w)
    /\ word_count(t) <= 5
    /\ \/ endswith(t, "=")
       \/ ends_unmatched(t, "{", "}")
       \/ ends_unmatched(t, "[", "]")
       \/ (isidentifier(t) /\ Len(t) < 10)

C24_PositionalDefault ==
    (mode = "extract" /\ tpc = "done")
        => \A k \in 1..Len(code_blocks) :
               starts_with_script(clean_filename(code_blocks[k].filename))
                   => code_blocks[k].filename = script_name(k)

\* C25: every collected block has code, at least one line of it.
C25_BlocksHaveCode ==
    (mode = "extract" /\ tpc = "done")
        => \A k \in 1..Len(code_blocks) : code_blocks[k].code # <<>>

\* ------------------------------------------------------------------------
\* Properties of call_model's steps (SpecCallSteps)
\* ------------------------------------------------------------------------
\* C26: in call_model the indicator thread only prints: a turn of its loop
\* changes nothing but the thread's own record.  And however call_model is
\* left (return of the output, of None after a non-zero exit, a missing
\* binary, Ctrl-C or another exception, or an exception raised out of the
\* finally clause), an event that was created is clear and a thread that
\* was started has been joined, each join being bounded by its timeout.
C26_IndicatorStopped ==
    /\ [][ShowThinkingProgress =>
            UNCHANGED <<cpc, thinking_active, process, callExit>>]_vars
    /\ [](cpc = "left" =>
            /\ thinking_active # "set"
            /\ progress_thread.state # "None" => progress_thread.joins >= 1)
C26_Witness ==
    /\ cpc = "left"
    /\ callExit = "None"
    /\ process.state = "None"
    /\ thinking_active = "clear"
    /\ progress_thread.state = "finished"
    /\ progress_thread.prints = MaxPrints
    /\ progress_thread.joins = 1

\* C28: however call_model is left, a subprocess it started is not both
\* running and without a signal sent to it.
C28_StartedProcessSignalled ==
    cpc = "left" => ~(process.state = "running" /\ process.signals = <<>>)

\* C27: a line handled in multi-line mode that is END hands the buffer as it
\* stands to process_request_with_retry and leaves multi-line mode with the
\* buffer empty; one that is CANCEL returns nothing, leaves multi-line mode
\* with the buffer empty and no request follows.  The buffer is the line
\* that entered multi-line mode followed by each appended line, in input
\* order, joined by newlines: entering sets it to the line, a line that
\* keeps the mode on is appended to it after a newline.
C27_EndAndCancel ==
    [][/\ (mainpc = "prompt" /\ multi_line_mode /\ lastLine'.handled) =>
            /\ upper(lastLine'.line) = END =>
                    /\ processed_input' = current_input
                    /\ lastLine'.returned = current_input
                    /\ mainpc' = "request"
                    /\ ~multi_line_mode'
                    /\ current_input' = <<>>
            /\ upper(lastLine'.line) = CANCEL =>
                    /\ processed_input' = NoInput
                    /\ mainpc' = "prompt"
                    /\ modelCalls' = modelCalls
                    /\ ~multi_line_mode'
                    /\ current_input' = <<>>
            /\ multi_line_mode' =>
                    current_input' =
                        current_input \o <<Newline>> \o lastLine'.line
       /\ (mainpc = "prompt" /\ ~multi_line_mode /\ multi_line_mode') =>
            current_input' = lastLine'.line]_vars
\* C27 witness: END has released a buffer of two lines, in the order typed.
C27_Witness ==
    /\ lastLine.handled
    /\ lastLine.mode_before
    /\ upper(lastLine.line) = END
    /\ lastLine.returned = <<"a", "=", "{", Newline, "a", "=">>
    /\ processed_input = lastLine.returned
    /\ mainpc = "request"
    /\ ~multi_line_mode
    /\ current_input = <<>>

\* C29: multi-line mode is left no later than the fifth appended line: a
\* buffer held in multi-line mode has fewer than five appended lines (each
\* appended line follows a newline, and no line holds one).
C29_LeftByFifthLine ==
    multi_line_mode => count(current_input, Newline) <= 4

\* C30: a request makes at most nine model calls: by the end of attempt k
\* at most k generation calls and 2k review calls were made, there are at
\* most MAX_RETRIES attempts, and after a review call the loop goes on to
\* another one only when the call was not interrupted and gave no
\* syntactically valid revision.
C30_ModelCallBound ==
    /\ [](/\ modelCalls <= attempt * (1 + (VALIDATION_PASSES + 1))
          /\ attempt <= MAX_RETRIES
          /\ modelCalls <= 9
          /\ pc = "review" => pass <= VALIDATION_PASSES)
    /\ [][(pc = "review" /\ pc' = "review" /\ modelCalls' # modelCalls) =>
            /\ pass' = pass + 1
            /\ code' = code \/ ~validate_python_code(code')
            /\ interruptedAt' = interruptedAt]_vars
\* C30 witness: the ninth call was the second review call of the third
\* attempt.
C30_Witness ==
    /\ modelCalls = 9
    /\ attempt = MAX_RETRIES
    /\ pc = "persist"
    /\ pass = VALIDATION_PASSES + 1

====
